---------------------------- MODULE Spec2Model ----------------------------
(***************************************************************************)
(* claude-usage-metrics (src/src/main.rs): main(), which initialises the   *)
(* telemetry providers, awaits run() and shuts the providers down; the     *)
(* three collectors (run_claude, run_openrouter, run_github_copilot)       *)
(* joined by run(); the normalizers From<UsageResponse> for                *)
(* Vec<UsageMetric> and From<OpenRouterCreditsResponse> for                *)
(* OpenRouterMetrics; and the reset-time arithmetic.                       *)
(*                                                                         *)
(* Conventions.                                                            *)
(*   Option<T>     None == <<>>, Some(x) == <<x>>.                         *)
(*   f64           an exact rational <<"f64", n, d>> in lowest terms with  *)
(*                 d > 0 (binary rounding is not modelled).                *)
(*   i64           <<"i64", n>>.                                           *)
(*   instants      integer milliseconds since the epoch.                   *)
(*   String        timestamps and dates are tagged tuples that the parsers *)
(*                 accept or reject: <<"rfc3339", local_ms, offset_ms>>,   *)
(*                 <<"date", day>>, <<"text", id>>.  Message texts are     *)
(*                 sequences of tokens, concatenated with \o.              *)
(***************************************************************************)
EXTENDS Integers, Sequences, FiniteSets, TLC

VARIABLES
    env,              \* the process environment (std::env::var)
    main_pc,          \* position of main(): "init", "run", "shutdown_tracer",
                      \* "shutdown_meter", "exited"
    main_result,      \* what main() returned
    shutdowns,        \* the provider shutdowns attempted, in order, with outcome
    body_read,        \* the response body each collector received (Option)
    or_response,      \* run_openrouter: the decoded credits response (Option)
    run_pc,           \* position of run(): "start", "join", "returned"
    run_result,       \* what run() returned
    pc,               \* position of each collector future
    result,           \* what each collector returned
    samples,          \* gauge samples recorded, per meter, in recording order
    usage_response,   \* run_claude: the parsed UsageResponse (Option)
    claude_now,       \* run_claude: Utc::now() read by the normalizer (Option)
    usage_metrics,    \* run_claude: the Vec<UsageMetric> (Option)
    or_metrics,       \* run_openrouter: the OpenRouterMetrics (Option)
    quotas,           \* run_github_copilot: the parsed quotas (Option)
    copilot_now,      \* run_github_copilot: Utc::now() (Option)
    seconds_to_reset  \* run_github_copilot: Option<Option<i64>>, outer = computed

vars == <<env, main_pc, main_result, shutdowns, run_pc, run_result, pc, result,
          samples, body_read, usage_response, claude_now, usage_metrics,
          or_response, or_metrics, quotas, copilot_now, seconds_to_reset>>

-----------------------------------------------------------------------------
(* Option, numbers *)

None == <<>>

Some(x) == <<x>>

IsSome(o) == Len(o) = 1

Unwrap(o) == o[1]

Abs(n) == IF n < 0 THEN -n ELSE n

Max(a, b) == IF a >= b THEN a ELSE b

RECURSIVE Gcd(_, _)
Gcd(a, b) == IF b = 0 THEN a ELSE Gcd(b, a % b)

\* The f64 with value n/d (d # 0), in lowest terms.
F64(n, d) ==
    LET g == Gcd(Abs(n), Abs(d))
        s == IF d < 0 THEN -1 ELSE 1
    IN  <<"f64", (s * n) \div g, (s * d) \div g>>

Num(x) == x[2]

Den(x) == x[3]

FDiv(x, y) == F64(Num(x) * Den(y), Den(x) * Num(y))

FSub(x, y) == F64(Num(x) * Den(y) - Num(y) * Den(x), Den(x) * Den(y))

FLe(x, y) == Num(x) * Den(y) <= Num(y) * Den(x)

Hundred == F64(100, 1)

One == F64(1, 1)

Zero == F64(0, 1)

I64(n) == <<"i64", n>>

-----------------------------------------------------------------------------
(* chrono *)

MsPerSec == 1000

MsPerDay == 86400000

\* DateTime::parse_from_rfc3339(s).ok(), then with_timezone(&Utc): the instant
\* of a well-formed timestamp is its local time less its UTC offset.
ParseRfc3339(s) ==
    IF s[1] = "rfc3339" THEN Some(s[2] - s[3]) ELSE None

\* NaiveDate::parse_from_str(s, "%Y-%m-%d").ok(), and_hms_opt(0, 0, 0), and_utc().
ParseDateMidnightUtc(s) ==
    IF s[1] = "date" THEN Some(s[2] * MsPerDay) ELSE None

\* TimeDelta::num_seconds(): whole seconds, truncated toward zero.
NumSeconds(ms) ==
    IF ms < 0 THEN -((-ms) \div MsPerSec) ELSE ms \div MsPerSec

\* (reset - now).num_seconds() without the clamp.
ClampedSecondsNoMax(reset, now) == NumSeconds(reset - now)

\* (reset - now).num_seconds().max(0)
ClampedSeconds(reset, now) == Max(NumSeconds(reset - now), 0)

-----------------------------------------------------------------------------
(* Claude types and normalizer *)

FieldNames ==
    <<"five_hour", "seven_day", "seven_day_oauth_apps", "seven_day_opus",
      "seven_day_sonnet", "seven_day_cowork", "iguana_necktie", "extra_usage">>

UsageInfo(u, r) == [utilization |-> u, resets_at |-> r]

\* i.resets_at.and_then(|s| parse_from_rfc3339(&s).ok().map(|t| (t - now).num_seconds().max(0)))
ClaudeSecondsToReset(resets_at, now) ==
    IF ~IsSome(resets_at) THEN None
    ELSE LET t == ParseRfc3339(Unwrap(resets_at))
         IN  IF IsSome(t) THEN Some(ClampedSeconds(Unwrap(t), now)) ELSE None

\* A present bucket with no utilization is emitted as zero instead of skipped.
MetricOfNullAsZero(name, info, now) ==
    IF ~IsSome(info) THEN None
    ELSE LET i == Unwrap(info)
         IN  Some([name |-> name,
                   utilization |-> IF IsSome(i.utilization)
                                   THEN Unwrap(i.utilization) ELSE Zero,
                   seconds_to_reset |-> ClaudeSecondsToReset(i.resets_at, now)])

\* A bucket whose reset string does not parse is dropped.
MetricOfDropsUnparsed(name, info, now) ==
    IF ~IsSome(info) THEN None
    ELSE LET i == Unwrap(info)
             s == ClaudeSecondsToReset(i.resets_at, now)
         IN  IF ~IsSome(i.utilization) \/ ~IsSome(s) THEN None
             ELSE Some([name |-> name,
                        utilization |-> Unwrap(i.utilization),
                        seconds_to_reset |-> s])

\* The closure of filter_map: info.and_then(|i| i.utilization.map(|u| UsageMetric {..}))
MetricOf(name, info, now) ==
    IF ~IsSome(info) THEN None
    ELSE LET i == Unwrap(info)
         IN  IF ~IsSome(i.utilization) THEN None
             ELSE Some([name |-> name,
                        utilization |-> Unwrap(i.utilization),
                        seconds_to_reset |-> ClaudeSecondsToReset(i.resets_at, now)])

\* The array `fields`: (name, response.<name>) in declaration order.
Fields(response) ==
    [k \in 1..Len(FieldNames) |-> <<FieldNames[k], response[FieldNames[k]]>>]

\* fields.into_iter().filter_map(..).collect(), from index k on.
RECURSIVE FilterMap(_, _, _)
FilterMap(fields, k, now) ==
    IF k > Len(fields) THEN <<>>
    ELSE MetricOf(fields[k][1], fields[k][2], now) \o FilterMap(fields, k + 1, now)

\* The same, collected back to front.
FromReversed(response, now) ==
    LET m == FilterMap(Fields(response), 1, now)
    IN  [k \in 1..Len(m) |-> m[Len(m) + 1 - k]]

\* impl From<UsageResponse> for Vec<UsageMetric>
From(response, now) == FilterMap(Fields(response), 1, now)

-----------------------------------------------------------------------------
(* JSON documents and serde *)

\* A response body: its raw text (one token) and, when the text is JSON, the
\* document: a function from the keys present to JSON values.
Body(raw, doc) == [raw |-> raw, doc |-> doc]

JNull == <<"null">>

JNumber(n, d) == <<"number", n, d>>

JString(s) == <<"string", "", s>>

JObject(o) == <<"object", "", "", o>>

JHas(o, k) == k \in DOMAIN o

\* A field of type Option<T> is None when its key is missing or null.
JAbsent(o, k) == ~JHas(o, k) \/ o[k][1] = "null"

\* serde on UsageInfo { utilization: Option<f64>, resets_at: Option<String> }:
\* None when a field has the wrong type.
ParseUsageInfo(o) ==
    IF /\ JAbsent(o, "utilization") \/ o["utilization"][1] = "number"
       /\ JAbsent(o, "resets_at") \/ o["resets_at"][1] = "string"
    THEN Some(UsageInfo(
             IF JAbsent(o, "utilization") THEN None
             ELSE Some(F64(o["utilization"][2], o["utilization"][3])),
             IF JAbsent(o, "resets_at") THEN None
             ELSE Some(o["resets_at"][3])))
    ELSE None

\* One Option<UsageInfo> field of UsageResponse: <<well typed, value>>.
ParseBucket(o, k) ==
    IF JAbsent(o, k) THEN <<TRUE, None>>
    ELSE IF o[k][1] # "object" THEN <<FALSE, None>>
    ELSE LET i == ParseUsageInfo(o[k][4])
         IN  <<IsSome(i), i>>

FieldSet == {FieldNames[k] : k \in 1..Len(FieldNames)}

\* serde_json::from_str::<UsageResponse>(&body).ok(); unknown keys are ignored.
ParseUsageResponse(body) ==
    IF ~IsSome(body.doc) THEN None
    ELSE LET o == Unwrap(body.doc)
         IN  IF \A k \in FieldSet : ParseBucket(o, k)[1]
             THEN Some([k \in FieldSet |-> ParseBucket(o, k)[2]])
             ELSE None

\* serde on OpenRouterCreditsResponse { data: { total_credits: f64, total_usage: f64 } };
\* the document's keys are the paths of its leaves.
ParseOpenRouterCredits(body) ==
    IF ~IsSome(body.doc) THEN None
    ELSE LET o == Unwrap(body.doc)
             num(k) == JHas(o, k) /\ o[k][1] = "number"
         IN  IF num("data.total_credits") /\ num("data.total_usage")
             THEN Some([total_credits |-> F64(o["data.total_credits"][2],
                                             o["data.total_credits"][3]),
                        total_usage |-> F64(o["data.total_usage"][2],
                                           o["data.total_usage"][3])])
             ELSE None

\* serde on GithubCopilotResponse { quotas: { remaining: { chatPercentage,
\* premiumInteractionsPercentage }, resetDate } }, all required.
ParseGithubCopilot(body) ==
    IF ~IsSome(body.doc) THEN None
    ELSE LET o == Unwrap(body.doc)
             num(k) == JHas(o, k) /\ o[k][1] = "number"
             c == "quotas.remaining.chatPercentage"
             p == "quotas.remaining.premiumInteractionsPercentage"
             r == "quotas.resetDate"
         IN  IF num(c) /\ num(p) /\ JHas(o, r) /\ o[r][1] = "string"
             THEN Some([chat_percentage |-> F64(o[c][2], o[c][3]),
                        premium_interactions_percentage |-> F64(o[p][2], o[p][3]),
                        reset_date |-> o[r][3]])
             ELSE None

-----------------------------------------------------------------------------
(* OpenRouter and GitHub Copilot arithmetic *)

\* A conversion that never reports a negative balance.
OpenRouterFromClamped(data) ==
    LET r == FSub(data.total_credits, data.total_usage)
    IN  [total_credits |-> data.total_credits,
         total_usage |-> data.total_usage,
         remaining |-> IF FLe(Zero, r) THEN r ELSE Zero]

\* impl From<OpenRouterCreditsResponse> for OpenRouterMetrics
OpenRouterFrom(data) ==
    [total_credits |-> data.total_credits,
     total_usage |-> data.total_usage,
     remaining |-> FSub(data.total_credits, data.total_usage)]

\* NaiveDate::parse_from_str(..).ok().and_then(and_hms_opt).map(|dt| (dt.and_utc() - now).num_seconds().max(0))
CopilotSecondsToReset(reset_date, now) ==
    LET t == ParseDateMidnightUtc(reset_date)
    IN  IF IsSome(t) THEN Some(ClampedSeconds(Unwrap(t), now)) ELSE None

\* 1.0 - remaining_percentage / 100.0
CopilotUtilization(remaining) == FSub(One, FDiv(remaining, Hundred))

-----------------------------------------------------------------------------
(* anyhow errors and results *)

\* An anyhow::Error: its chain of contexts, outermost first, each a text.
Err(ctx, cause) == [state |-> "err", chain |-> <<ctx, cause>>]

Ok == [state |-> "ok", chain |-> <<>>]

Pending == [state |-> "pending", chain |-> <<>>]

IsErr(r) == r.state = "err"

IsOk(r) == r.state = "ok"

\* format!("{}", e): anyhow's Display prints the outermost context only.
Display(e) == e.chain[1]

-----------------------------------------------------------------------------
(* Gauge samples *)

Sample(gauge, value, tags) == [gauge |-> gauge, value |-> value, tags |-> tags]

MetricNameTag(name) == <<<<"metric_name", name>>>>

\* The utilization sample is recorded unscaled.
ClaudeRecordOneUnscaled(metric) ==
    <<Sample("claude.usage.utilization", metric.utilization,
             MetricNameTag(metric.name))>>
    \o (IF IsSome(metric.seconds_to_reset)
        THEN <<Sample("claude.usage.seconds_to_reset",
                      I64(Unwrap(metric.seconds_to_reset)),
                      MetricNameTag(metric.name))>>
        ELSE <<>>)

\* The body of the loop `for metric in &usage_metrics`.
ClaudeRecordOne(metric) ==
    <<Sample("claude.usage.utilization", FDiv(metric.utilization, Hundred),
             MetricNameTag(metric.name))>>
    \o (IF IsSome(metric.seconds_to_reset)
        THEN <<Sample("claude.usage.seconds_to_reset",
                      I64(Unwrap(metric.seconds_to_reset)),
                      MetricNameTag(metric.name))>>
        ELSE <<>>)

RECURSIVE ClaudeRecordFrom(_, _)
ClaudeRecordFrom(metrics, k) ==
    IF k > Len(metrics) THEN <<>>
    ELSE ClaudeRecordOne(metrics[k]) \o ClaudeRecordFrom(metrics, k + 1)

\* The loop stops one metric short.
ClaudeRecordAllButLast(metrics) ==
    IF metrics = <<>> THEN <<>>
    ELSE ClaudeRecordFrom(SubSeq(metrics, 1, Len(metrics) - 1), 1)

\* for metric in &usage_metrics { .. }
ClaudeRecord(metrics) == ClaudeRecordFrom(metrics, 1)

\* total_gauge.record, usage_gauge.record, remaining_gauge.record
OpenRouterRecord(m) ==
    <<Sample("openrouter.credits.total", m.total_credits, <<>>),
      Sample("openrouter.credits.usage", m.total_usage, <<>>),
      Sample("openrouter.credits.remaining", m.remaining, <<>>)>>

\* The two utilization samples and, when the date parsed, the countdown.
CopilotRecord(q, seconds) ==
    <<Sample("github_copilot.usage.utilization",
             CopilotUtilization(q.chat_percentage), MetricNameTag("chat")),
      Sample("github_copilot.usage.utilization",
             CopilotUtilization(q.premium_interactions_percentage),
             MetricNameTag("premium_interactions"))>>
    \o (IF IsSome(seconds)
        THEN <<Sample("github_copilot.usage.seconds_to_reset",
                      I64(Unwrap(seconds)), <<>>)>>
        ELSE <<>>)

-----------------------------------------------------------------------------
(* Inputs: the environment, the clock and the peers' answers *)

Collectors == <<"claude", "openrouter", "github_copilot">>

CollectorSet == {Collectors[k] : k \in 1..Len(Collectors)}

\* Days from the epoch to the day the job runs on.
Today == 1

\* Half seconds the job's clock is past midnight.
ClockHalfSecs == 1

\* Utc::now() as the collectors may read it.
Nows == {Today * MsPerDay + h * (MsPerSec \div 2) : h \in 0..ClockHalfSecs}

UriText == <<"uri", 1>>

BadUriText == <<"text", 1>>

\* Channel::from_shared accepts a URI only.
ValidUri(s) == s[1] = "uri"

Envs ==
    [COOKIEJAR_URL : {None, Some(BadUriText), Some(UriText)},
     CLAUDE_ORGANIZATION_ID : {None, Some(<<"text", 2>>)},
     OPENROUTER_API_KEY : {None, Some(<<"text", 3>>)}]

Rfc3339At(instant, offset) == <<"rfc3339", instant + offset, offset>>

Noon == Today * MsPerDay + MsPerDay \div 2

ClaudeBodies ==
    <<Body("<html>Just a moment...</html>", None),
      Body("{}", Some(<<>>)),
      Body("{five_hour,seven_day,seven_day_opus:null,extra_usage,unknown}",
           Some(("five_hour" :> JObject(("utilization" :> JNumber(75, 1)) @@
                                         ("resets_at" :> JString(Rfc3339At(Noon, 0)))))
                @@ ("seven_day" :> JObject(("utilization" :> JNumber(0, 1)) @@
                                           ("resets_at" :> JNull)))
                @@ ("seven_day_opus" :> JNull)
                @@ ("extra_usage" :> JObject(("utilization" :> JNull) @@
                                             ("resets_at" :> JString(Rfc3339At(0, 0)))))
                @@ ("unknown" :> JNumber(1, 1)))),
      Body("{five_hour:{utilization:\"high\"}}",
           Some("five_hour" :> JObject("utilization" :> JString(<<"text", 4>>)))),
      Body("{seven_day_sonnet,iguana_necktie}",
           Some(("seven_day_sonnet" :> JObject(("utilization" :> JNumber(100, 1)) @@
                                                ("resets_at" :> JString(<<"text", 5>>))))
                @@ ("iguana_necktie" :> JObject(("utilization" :> JNumber(25, 2)) @@
                                                ("resets_at" :> JString(Rfc3339At(0, 3600 * MsPerSec)))))))>>

OpenRouterBodies ==
    <<Body("<html>502</html>", None),
      Body("{data:{total_credits:100,total_usage:25.5}}",
           Some(("data.total_credits" :> JNumber(100, 1)) @@
                ("data.total_usage" :> JNumber(51, 2)))),
      Body("{data:{total_credits:50,total_usage:0}}",
           Some(("data.total_credits" :> JNumber(50, 1)) @@
                ("data.total_usage" :> JNumber(0, 1)))),
      Body("{data:{total_credits:10,total_usage:12.5}}",
           Some(("data.total_credits" :> JNumber(10, 1)) @@
                ("data.total_usage" :> JNumber(25, 2)))),
      Body("{data:{total_credits:10}}",
           Some("data.total_credits" :> JNumber(10, 1)))>>

CopilotBodies ==
    <<Body("<html>Sign in</html>", None),
      Body("{quotas:{remaining:{chat:100,premium:25}}}",
           Some(("quotas.remaining.chatPercentage" :> JNumber(100, 1)) @@
                ("quotas.remaining.premiumInteractionsPercentage" :> JNumber(25, 1)))),
      Body("{quotas:{remaining:{chat:100,premium:25},resetDate:tomorrow}}",
           Some(("quotas.remaining.chatPercentage" :> JNumber(100, 1)) @@
                ("quotas.remaining.premiumInteractionsPercentage" :> JNumber(25, 1)) @@
                ("quotas.resetDate" :> JString(<<"date", Today + 1>>)))),
      Body("{quotas:{remaining:{chat:0,premium:62.5},resetDate:\"soon\"}}",
           Some(("quotas.remaining.chatPercentage" :> JNumber(0, 1)) @@
                ("quotas.remaining.premiumInteractionsPercentage" :> JNumber(125, 2)) @@
                ("quotas.resetDate" :> JString(<<"text", 6>>)))),
      Body("{quotas:{remaining:{chat:50,premium:50},resetDate:yesterday}}",
           Some(("quotas.remaining.chatPercentage" :> JNumber(50, 1)) @@
                ("quotas.remaining.premiumInteractionsPercentage" :> JNumber(50, 1)) @@
                ("quotas.resetDate" :> JString(<<"date", Today - 1>>))))>>

-----------------------------------------------------------------------------
(* Initial state *)

NoCollectorState ==
    /\ usage_response = None
    /\ claude_now = None
    /\ usage_metrics = None
    /\ or_response = None
    /\ or_metrics = None
    /\ quotas = None
    /\ copilot_now = None
    /\ seconds_to_reset = None

Init ==
    /\ env \in Envs
    /\ main_pc = "init"
    /\ main_result = Pending
    /\ shutdowns = <<>>
    /\ body_read = [c \in CollectorSet |-> None]
    /\ run_pc = "start"
    /\ run_result = Pending
    /\ pc = [c \in CollectorSet |-> "start"]
    /\ result = [c \in CollectorSet |-> Pending]
    /\ samples = [c \in CollectorSet |-> <<>>]
    /\ NoCollectorState

claudeVars == <<usage_response, claude_now, usage_metrics>>

copilotVars == <<quotas, copilot_now, seconds_to_reset>>

openrouterVars == <<or_response, or_metrics>>

runVars == <<run_pc, run_result>>

mainVars == <<main_pc, main_result, shutdowns>>

\* Collector c returns r: `?` on an Err, or the final Ok(()).
Return(c, r) ==
    /\ pc' = [pc EXCEPT ![c] = "done"]
    /\ result' = [result EXCEPT ![c] = r]

\* Collector c suspends at its next .await.
Goto(c, p) ==
    /\ pc' = [pc EXCEPT ![c] = p]
    /\ UNCHANGED result

\* Collector c is being polled by run()'s join and is at position p.
At(c, p) == run_pc = "join" /\ pc[c] = p

-----------------------------------------------------------------------------
(* run_claude *)

EnvNotSet(name) == Err(<<name, " environment variable not set">>,
                       <<"environment variable not found">>)

\* To the first .await: COOKIEJAR_URL, Channel::from_shared, connect() begun.
ClaudeStart ==
    /\ At("claude", "start")
    /\ IF ~IsSome(env.COOKIEJAR_URL)
       THEN Return("claude", EnvNotSet("COOKIEJAR_URL"))
       ELSE IF ~ValidUri(Unwrap(env.COOKIEJAR_URL))
       THEN Return("claude", Err(<<"Invalid COOKIEJAR_URL">>, <<"invalid uri">>))
       ELSE Goto("claude", "connect")
    /\ UNCHANGED <<env, mainVars, runVars, samples, body_read, claudeVars, openrouterVars, copilotVars>>

\* connect().await under connect_timeout(10 s), then get_cookies() begun.
ClaudeConnect ==
    /\ At("claude", "connect")
    /\ \E outcome \in {"connected", "refused", "timed out"} :
          IF outcome = "connected"
          THEN Goto("claude", "get_cookies")
          ELSE Return("claude", Err(<<"Failed to connect to cookie service">>,
                                  <<"transport error: ", outcome>>))
    /\ UNCHANGED <<env, mainVars, runVars, samples, body_read, claudeVars, openrouterVars, copilotVars>>

\* get_cookies().await, CLAUDE_ORGANIZATION_ID, the HTTP client, send() begun.
ClaudeGetCookies ==
    /\ At("claude", "get_cookies")
    /\ \E outcome \in {"cookies", "status: Unavailable"}, built \in BOOLEAN :
          IF outcome # "cookies"
          THEN Return("claude", Err(<<"Failed to get cookies">>, <<outcome>>))
          ELSE IF ~IsSome(env.CLAUDE_ORGANIZATION_ID)
          THEN Return("claude", EnvNotSet("CLAUDE_ORGANIZATION_ID"))
          ELSE IF ~built
          THEN Return("claude", Err(<<"Failed to build HTTP client">>, <<"builder error">>))
          ELSE Goto("claude", "send")
    /\ UNCHANGED <<env, mainVars, runVars, samples, body_read, claudeVars, openrouterVars, copilotVars>>

\* send().await under timeout(30 s), error_for_status(), text() begun.
ClaudeSend ==
    /\ At("claude", "send")
    /\ \E outcome \in {"200", "403", "connection error", "timed out"} :
          IF outcome \in {"connection error", "timed out"}
          THEN Return("claude", Err(<<"Failed to send request to Claude API">>,
                                  <<outcome>>))
          ELSE IF outcome # "200"
          THEN Return("claude", Err(<<"Claude API returned non-2xx status">>,
                                  <<"HTTP status ", outcome>>))
          ELSE Goto("claude", "text")
    /\ UNCHANGED <<env, mainVars, runVars, samples, body_read, claudeVars, openrouterVars, copilotVars>>

\* From the parsed response to the return: normalize, record every metric.
ClaudeAfterParse(response, now) ==
    LET metrics == From(response, now)
    IN  [result |-> Ok,
         usage_response |-> Some(response), now |-> Some(now),
         usage_metrics |-> Some(metrics),
         samples |-> ClaudeRecord(metrics)]

\* From the body to the return: parse, then the above.
ClaudeFinish(body, now) ==
    LET parsed == ParseUsageResponse(body)
    IN  IF ~IsSome(parsed)
        THEN [result |-> Err(<<"Failed to parse usage response: ", body.raw>>,
                             <<"serde_json error">>),
              usage_response |-> None, now |-> None, usage_metrics |-> None,
              samples |-> <<>>]
        ELSE ClaudeAfterParse(Unwrap(parsed), now)

\* text().await, then the rest of run_claude, which never suspends again.
ClaudeText ==
    /\ At("claude", "text")
    /\ \/ /\ Return("claude", Err(<<"Failed to read response body">>, <<"timed out">>))
          /\ UNCHANGED <<samples, body_read, claudeVars>>
       \/ \E b \in 1..Len(ClaudeBodies), now \in Nows :
             LET f == ClaudeFinish(ClaudeBodies[b], now)
             IN  /\ Return("claude", f.result)
                 /\ body_read' = [body_read EXCEPT !["claude"] =
                                                  Some(ClaudeBodies[b].raw)]
                 /\ usage_response' = f.usage_response
                 /\ claude_now' = f.now
                 /\ usage_metrics' = f.usage_metrics
                 /\ samples' = [samples EXCEPT !["claude"] = @ \o f.samples]
    /\ UNCHANGED <<env, mainVars, runVars, openrouterVars, copilotVars>>

-----------------------------------------------------------------------------
(* run_openrouter *)

\* To the first .await: OPENROUTER_API_KEY, the HTTP client, send() begun.
OpenRouterStart ==
    /\ At("openrouter", "start")
    /\ \E built \in BOOLEAN :
          IF ~IsSome(env.OPENROUTER_API_KEY)
          THEN Return("openrouter", EnvNotSet("OPENROUTER_API_KEY"))
          ELSE IF ~built
          THEN Return("openrouter", Err(<<"Failed to build HTTP client">>,
                                      <<"builder error">>))
          ELSE Goto("openrouter", "send")
    /\ UNCHANGED <<env, mainVars, runVars, samples, body_read, claudeVars, openrouterVars, copilotVars>>

\* send().await under timeout(30 s), error_for_status(), json() begun.
OpenRouterSend ==
    /\ At("openrouter", "send")
    /\ \E outcome \in {"200", "401", "connection error", "timed out"} :
          IF outcome \in {"connection error", "timed out"}
          THEN Return("openrouter", Err(<<"Failed to send request to OpenRouter API">>,
                                      <<outcome>>))
          ELSE IF outcome # "200"
          THEN Return("openrouter", Err(<<"OpenRouter API returned non-2xx status">>,
                                      <<"HTTP status ", outcome>>))
          ELSE Goto("openrouter", "json")
    /\ UNCHANGED <<env, mainVars, runVars, samples, body_read, claudeVars, openrouterVars, copilotVars>>

\* From the decoded response to the return: convert, record the three gauges.
OpenRouterAfterParse(response) ==
    LET metrics == OpenRouterFrom(response)
    IN  [result |-> Ok, or_response |-> Some(response), or_metrics |-> Some(metrics),
         samples |-> OpenRouterRecord(metrics)]

\* From the body to the return: decode, then the rest.
OpenRouterFinish(body) ==
    LET parsed == ParseOpenRouterCredits(body)
    IN  IF ~IsSome(parsed)
        THEN [result |-> Err(<<"Failed to parse OpenRouter credits response">>,
                             <<"error decoding response body">>),
              or_response |-> None, or_metrics |-> None, samples |-> <<>>]
        ELSE OpenRouterAfterParse(Unwrap(parsed))

\* json().await (reading the body and decoding it), then the rest.
OpenRouterJson ==
    /\ At("openrouter", "json")
    /\ \/ /\ Return("openrouter", Err(<<"Failed to parse OpenRouter credits response">>,
                                    <<"timed out">>))
          /\ UNCHANGED <<samples, body_read, openrouterVars>>
       \/ \E b \in 1..Len(OpenRouterBodies) :
             LET f == OpenRouterFinish(OpenRouterBodies[b])
             IN  /\ Return("openrouter", f.result)
                 /\ body_read' = [body_read EXCEPT !["openrouter"] =
                                                  Some(OpenRouterBodies[b].raw)]
                 /\ or_response' = f.or_response
                 /\ or_metrics' = f.or_metrics
                 /\ samples' = [samples EXCEPT !["openrouter"] = @ \o f.samples]
    /\ UNCHANGED <<env, mainVars, runVars, claudeVars, copilotVars>>

-----------------------------------------------------------------------------
(* run_github_copilot *)

\* To the first .await: COOKIEJAR_URL, Channel::from_shared, connect() begun.
CopilotStart ==
    /\ At("github_copilot", "start")
    /\ IF ~IsSome(env.COOKIEJAR_URL)
       THEN Return("github_copilot", EnvNotSet("COOKIEJAR_URL"))
       ELSE IF ~ValidUri(Unwrap(env.COOKIEJAR_URL))
       THEN Return("github_copilot", Err(<<"Invalid COOKIEJAR_URL">>, <<"invalid uri">>))
       ELSE Goto("github_copilot", "connect")
    /\ UNCHANGED <<env, mainVars, runVars, samples, body_read, claudeVars, openrouterVars, copilotVars>>

\* connect().await under connect_timeout(10 s), then get_cookies() begun.
CopilotConnect ==
    /\ At("github_copilot", "connect")
    /\ \E outcome \in {"connected", "refused", "timed out"} :
          IF outcome = "connected"
          THEN Goto("github_copilot", "get_cookies")
          ELSE Return("github_copilot",
                    Err(<<"Failed to connect to cookie service">>,
                        <<"transport error: ", outcome>>))
    /\ UNCHANGED <<env, mainVars, runVars, samples, body_read, claudeVars, openrouterVars, copilotVars>>

\* get_cookies().await, the HTTP client, send() begun.
CopilotGetCookies ==
    /\ At("github_copilot", "get_cookies")
    /\ \E outcome \in {"cookies", "status: Unavailable"}, built \in BOOLEAN :
          IF outcome # "cookies"
          THEN Return("github_copilot", Err(<<"Failed to get cookies">>, <<outcome>>))
          ELSE IF ~built
          THEN Return("github_copilot", Err(<<"Failed to build HTTP client">>,
                                          <<"builder error">>))
          ELSE Goto("github_copilot", "send")
    /\ UNCHANGED <<env, mainVars, runVars, samples, body_read, claudeVars, openrouterVars, copilotVars>>

\* send().await under timeout(30 s), error_for_status(), json() begun.
CopilotSend ==
    /\ At("github_copilot", "send")
    /\ \E outcome \in {"200", "404", "connection error", "timed out"} :
          IF outcome \in {"connection error", "timed out"}
          THEN Return("github_copilot",
                    Err(<<"Failed to send request to GitHub Copilot API">>, <<outcome>>))
          ELSE IF outcome # "200"
          THEN Return("github_copilot",
                    Err(<<"GitHub Copilot API returned non-2xx status">>,
                        <<"HTTP status ", outcome>>))
          ELSE Goto("github_copilot", "json")
    /\ UNCHANGED <<env, mainVars, runVars, samples, body_read, claudeVars, openrouterVars, copilotVars>>

\* The reset date is parsed with `?` after the utilization samples are recorded.
CopilotAfterParseDateChecked(q, now) ==
    LET seconds == CopilotSecondsToReset(q.reset_date, now)
    IN  [result |-> IF IsSome(seconds) THEN Ok
                    ELSE Err(<<"Failed to parse reset date">>, <<"input is invalid">>),
         quotas |-> Some(q), now |-> Some(now),
         seconds_to_reset |-> Some(seconds),
         samples |-> CopilotRecord(q, seconds)]

\* From the decoded response to the return: reset arithmetic, record.
CopilotAfterParse(q, now) ==
    LET seconds == CopilotSecondsToReset(q.reset_date, now)
    IN  [result |-> Ok,
         quotas |-> Some(q), now |-> Some(now),
         seconds_to_reset |-> Some(seconds),
         samples |-> CopilotRecord(q, seconds)]

\* From the body to the return: decode, then the above.
CopilotFinish(body, now) ==
    LET parsed == ParseGithubCopilot(body)
    IN  IF ~IsSome(parsed)
        THEN [result |-> Err(<<"Failed to parse GitHub Copilot quota response">>,
                             <<"error decoding response body">>),
              quotas |-> None, now |-> None, seconds_to_reset |-> None,
              samples |-> <<>>]
        ELSE CopilotAfterParse(Unwrap(parsed), now)

\* json().await (reading the body and decoding it), then the rest.
CopilotJson ==
    /\ At("github_copilot", "json")
    /\ \/ /\ Return("github_copilot",
                  Err(<<"Failed to parse GitHub Copilot quota response">>,
                      <<"timed out">>))
          /\ UNCHANGED <<samples, body_read, copilotVars>>
       \/ \E b \in 1..Len(CopilotBodies), now \in Nows :
             LET f == CopilotFinish(CopilotBodies[b], now)
             IN  /\ Return("github_copilot", f.result)
                 /\ body_read' = [body_read EXCEPT !["github_copilot"] =
                                                  Some(CopilotBodies[b].raw)]
                 /\ quotas' = f.quotas
                 /\ copilot_now' = f.now
                 /\ seconds_to_reset' = f.seconds_to_reset
                 /\ samples' = [samples EXCEPT !["github_copilot"] = @ \o f.samples]
    /\ UNCHANGED <<env, mainVars, runVars, claudeVars, openrouterVars>>

-----------------------------------------------------------------------------
(* run *)

Label(c) ==
    CASE c = "claude" -> "Claude: "
      [] c = "openrouter" -> "OpenRouter: "
      [] c = "github_copilot" -> "GitHub Copilot: "

\* format!("<label>: {}", e)
Entry(c, e) == <<Label(c)>> \o Display(e)

\* errors.join("; ")
RECURSIVE JoinSep(_, _)
JoinSep(entries, sep) ==
    IF entries = <<>> THEN <<>>
    ELSE IF Len(entries) = 1 THEN entries[1]
    ELSE entries[1] \o sep \o JoinSep(Tail(entries), sep)

\* Only the first failure is kept, as a short-circuiting join would report.
ErrorsFirstOnly(res) ==
    LET failed == SelectSeq(Collectors, LAMBDA c : IsErr(res[c]))
    IN  IF failed = <<>> THEN <<>> ELSE <<Entry(failed[1], res[failed[1]])>>

\* The Vec `errors`: one entry per Err, pushed in the order Claude, OpenRouter,
\* GitHub Copilot.
Errors(res) ==
    (IF IsErr(res["claude"]) THEN <<Entry("claude", res["claude"])>> ELSE <<>>)
    \o (IF IsErr(res["openrouter"])
        THEN <<Entry("openrouter", res["openrouter"])>> ELSE <<>>)
    \o (IF IsErr(res["github_copilot"])
        THEN <<Entry("github_copilot", res["github_copilot"])>> ELSE <<>>)

\* What run() returns from the three results.
Aggregate(res) ==
    IF Errors(res) # <<>>
    THEN Err(<<"Metrics collection failed: ">> \o JoinSep(Errors(res), <<"; ">>), <<>>)
    ELSE Ok

\* A join that is ready as soon as one branch has failed (try_join!).
JoinReadyOnFirstErr ==
    \/ \A c \in CollectorSet : result[c] # Pending
    \/ \E c \in CollectorSet : IsErr(result[c])

\* tokio::join! is ready when every branch has completed.
JoinReady == \A c \in CollectorSet : result[c] # Pending

\* run() is polled: the three futures are created and joined.
RunStart ==
    /\ main_pc = "run"
    /\ run_pc = "start"
    /\ run_pc' = "join"
    /\ UNCHANGED <<env, mainVars, run_result, pc, result, samples, body_read, claudeVars,
                   openrouterVars, copilotVars>>

\* The join completes; errors are logged and aggregated; run() returns.
RunReturn ==
    /\ run_pc = "join"
    /\ JoinReady
    /\ run_result' = Aggregate(result)
    /\ run_pc' = "returned"
    /\ UNCHANGED <<env, mainVars, pc, result, samples, body_read, claudeVars,
                   openrouterVars, copilotVars>>

ClaudeStep == ClaudeStart \/ ClaudeConnect \/ ClaudeGetCookies \/ ClaudeSend \/ ClaudeText

OpenRouterStep == OpenRouterStart \/ OpenRouterSend \/ OpenRouterJson

CopilotStep ==
    CopilotStart \/ CopilotConnect \/ CopilotGetCookies \/ CopilotSend \/ CopilotJson

\* The cookie service has accepted the connection and never answers collector
\* c's GetCookies call: no deadline is set on the channel or on the request,
\* so nothing wakes the collector again.
CookieServiceSilent(c) ==
    /\ At(c, "get_cookies")
    /\ Goto(c, "get_cookies_unanswered")
    /\ UNCHANGED <<env, mainVars, runVars, samples, body_read, claudeVars,
                   openrouterVars, copilotVars>>

PeerStep == CookieServiceSilent("claude") \/ CookieServiceSilent("github_copilot")

-----------------------------------------------------------------------------
(* main *)

collectorVars == <<pc, result, samples, body_read, claudeVars, openrouterVars,
                   copilotVars>>

\* Phase 1: init_telemetry builds the span exporter, then the metric exporter;
\* either build may fail, and main returns that error at once.
MainInit ==
    /\ main_pc = "init"
    /\ \/ /\ main_pc' = "run"
          /\ UNCHANGED main_result
       \/ \E ctx \in {"Failed to create OTLP span exporter",
                      "Failed to create metric exporter"} :
             /\ main_pc' = "exited"
             /\ main_result' = Err(<<ctx>>, <<"exporter build error">>)
    /\ UNCHANGED <<env, shutdowns, runVars, collectorVars>>

\* A tracer shutdown whose error is returned with `?`.
AfterTracerShutdownPropagates(outcome) ==
    IF outcome = "err" THEN "exited" ELSE "shutdown_meter"

\* `if let Err(e) = providers.tracer_provider.shutdown() { eprintln!(..) }`
AfterTracerShutdown(outcome) == "shutdown_meter"

ShutdownOutcomes == {"ok", "err"}

\* Phase 2 ends: `let result = run().await`; an error is logged, not returned.
MainAfterRun ==
    /\ main_pc = "run"
    /\ run_pc = "returned"
    /\ main_pc' = "shutdown_tracer"
    /\ UNCHANGED <<env, main_result, shutdowns, runVars, collectorVars>>

\* Phase 3, first half.
MainShutdownTracer ==
    /\ main_pc = "shutdown_tracer"
    /\ \E outcome \in ShutdownOutcomes :
          /\ shutdowns' = Append(shutdowns, <<"tracer_provider", outcome>>)
          /\ main_pc' = AfterTracerShutdown(outcome)
    /\ main_result' = IF main_pc' = "exited" THEN run_result ELSE main_result
    /\ UNCHANGED <<env, runVars, collectorVars>>

\* Phase 3, second half, and the return of `result`.
MainShutdownMeter ==
    /\ main_pc = "shutdown_meter"
    /\ \E outcome \in ShutdownOutcomes :
          shutdowns' = Append(shutdowns, <<"meter_provider", outcome>>)
    /\ main_pc' = "exited"
    /\ main_result' = run_result
    /\ UNCHANGED <<env, runVars, collectorVars>>

MainStep == MainInit \/ MainAfterRun \/ MainShutdownTracer \/ MainShutdownMeter

Next ==
    \/ MainStep
    \/ RunStart
    \/ ClaudeStep
    \/ OpenRouterStep
    \/ CopilotStep
    \/ PeerStep
    \/ RunReturn

Spec == Init /\ [][Next]_vars

\* The runtime polls main's task whenever one of its futures can make progress:
\* a step of main, of run() or of a collector that stays possible is taken.
\* Nothing obliges a peer to go silent, or to answer.
Fairness ==
    /\ WF_vars(MainStep)
    /\ WF_vars(RunStart)
    /\ WF_vars(ClaudeStep)
    /\ WF_vars(OpenRouterStep)
    /\ WF_vars(CopilotStep)
    /\ WF_vars(RunReturn)

SpecLive == Init /\ [][Next]_vars /\ Fairness

-----------------------------------------------------------------------------
(* Reading the recorded samples *)

\* Positions in meter c's samples of the samples of `gauge` carrying `tags`.
SamplesWith(c, gauge, tags) ==
    {k \in 1..Len(samples[c]) :
        samples[c][k].gauge = gauge /\ samples[c][k].tags = tags}

SamplesOf(c, gauge) ==
    {k \in 1..Len(samples[c]) : samples[c][k].gauge = gauge}

Returned == run_pc = "returned"

Failing == {c \in CollectorSet : IsErr(result[c])}

\* Every metric of usage_metrics has its utilization sample and, exactly when it
\* has a reset time, its reset-countdown sample, both labelled with its name;
\* no other sample was recorded.
ClaudeSamplesComplete ==
    /\ IsSome(usage_metrics)
    /\ LET ms == Unwrap(usage_metrics)
       IN  /\ \A k \in 1..Len(ms) :
                /\ Cardinality(SamplesWith("claude", "claude.usage.utilization",
                                           MetricNameTag(ms[k].name))) = 1
                /\ Cardinality(SamplesWith("claude", "claude.usage.seconds_to_reset",
                                           MetricNameTag(ms[k].name)))
                     = IF IsSome(ms[k].seconds_to_reset) THEN 1 ELSE 0
           /\ Len(samples["claude"])
                = Len(ms) + Cardinality({k \in 1..Len(ms) : IsSome(ms[k].seconds_to_reset)})

OpenRouterSamplesComplete ==
    /\ IsSome(or_metrics)
    /\ Len(samples["openrouter"]) = 3
    /\ \A g \in {"openrouter.credits.total", "openrouter.credits.usage",
                 "openrouter.credits.remaining"} :
          Cardinality(SamplesWith("openrouter", g, <<>>)) = 1

CopilotSamplesComplete ==
    /\ IsSome(quotas)
    /\ IsSome(seconds_to_reset)
    /\ \A n \in {"chat", "premium_interactions"} :
          Cardinality(SamplesWith("github_copilot", "github_copilot.usage.utilization",
                                  MetricNameTag(n))) = 1
    /\ Cardinality(SamplesOf("github_copilot", "github_copilot.usage.seconds_to_reset"))
         = IF IsSome(Unwrap(seconds_to_reset)) THEN 1 ELSE 0
    /\ Len(samples["github_copilot"])
         = 2 + IF IsSome(Unwrap(seconds_to_reset)) THEN 1 ELSE 0

SamplesComplete(c) ==
    CASE c = "claude" -> ClaudeSamplesComplete
      [] c = "openrouter" -> OpenRouterSamplesComplete
      [] c = "github_copilot" -> CopilotSamplesComplete

StepOf(c) ==
    CASE c = "claude" -> ClaudeStep
      [] c = "openrouter" -> OpenRouterStep
      [] c = "github_copilot" -> CopilotStep

-----------------------------------------------------------------------------
(* C1 *)

\* C1: run() has returned only if every collector has completed, and while
\* run() is joining, a collector that has not completed and whose peer has not
\* gone silent can take its next step whatever the other collectors have
\* returned: no failure cancels or skips it.
C1_RunWaitsForEveryCollector ==
    /\ Returned => \A c \in CollectorSet : pc[c] = "done" /\ result[c] # Pending
    /\ \A c \in CollectorSet :
          (run_pc = "join" /\ pc[c] \notin {"done", "get_cookies_unanswered"})
             => ENABLED StepOf(c)

\* run() has returned although Claude failed at its first step; the other two
\* ran to success.
C1_Witness ==
    /\ Returned
    /\ IsErr(result["claude"])
    /\ Display(result["claude"]) = <<"COOKIEJAR_URL", " environment variable not set">>
    /\ IsOk(result["openrouter"])
    /\ samples["openrouter"] # <<>>

-----------------------------------------------------------------------------
(* C2 *)

AggregateMessage == Display(run_result)

LabelPositions(c) ==
    {i \in 1..Len(AggregateMessage) : AggregateMessage[i] = Label(c)}

EntryLen(c) == IF IsErr(result[c]) THEN 1 + Len(Display(result[c])) ELSE 0

\* C2: when run() has returned, it returned Ok exactly if no collector failed;
\* otherwise its message is the prefix followed by one "label: error" entry per
\* failing provider and none for the others, in the order Claude, OpenRouter,
\* GitHub Copilot, with "; " between entries.
C2_AggregateOutcome ==
    Returned =>
      /\ IsOk(run_result) <=> Failing = {}
      /\ IsErr(run_result) <=> Failing # {}
      /\ IsErr(run_result) =>
           /\ AggregateMessage[1] = "Metrics collection failed: "
           /\ \A c \in CollectorSet :
                Cardinality(LabelPositions(c)) = IF c \in Failing THEN 1 ELSE 0
           /\ \A c \in Failing : \A i \in LabelPositions(c) :
                /\ SubSeq(AggregateMessage, i + 1, i + Len(Display(result[c])))
                     = Display(result[c])
                /\ \/ i = 2
                   \/ AggregateMessage[i - 1] = "; "
           /\ \A j, k \in 1..Len(Collectors) :
                (j < k /\ Collectors[j] \in Failing /\ Collectors[k] \in Failing) =>
                   \A a \in LabelPositions(Collectors[j]),
                      b \in LabelPositions(Collectors[k]) : a < b
           /\ Cardinality({i \in 1..Len(AggregateMessage) : AggregateMessage[i] = "; "})
                = Cardinality(Failing) - 1
           /\ Len(AggregateMessage)
                = 1 + EntryLen("claude") + EntryLen("openrouter")
                    + EntryLen("github_copilot") + Cardinality(Failing) - 1

\* Claude and GitHub Copilot failed, OpenRouter succeeded.
C2_Witness ==
    /\ Returned
    /\ Failing = {"claude", "github_copilot"}
    /\ IsErr(run_result)

-----------------------------------------------------------------------------
(* C3 *)

\* C3: when run() has returned, every collector that returned Ok has recorded
\* all of its samples, whatever the other collectors returned.
C3_SuccessfulCollectorsRecorded ==
    Returned => \A c \in CollectorSet : IsOk(result[c]) => SamplesComplete(c)

\* run() returned a failure (OpenRouter failed) and Claude, which succeeded,
\* has recorded the samples of its two metrics.
C3_Witness ==
    /\ Returned
    /\ IsErr(run_result)
    /\ IsErr(result["openrouter"])
    /\ IsOk(result["claude"])
    /\ Len(Unwrap(usage_metrics)) = 2
    /\ Len(samples["claude"]) = 3

-----------------------------------------------------------------------------
(* C4 *)

CollectorUnchanged(c) ==
    /\ pc'[c] = pc[c]
    /\ result'[c] = result[c]
    /\ samples'[c] = samples[c]

\* C4: in every step: a provider has samples only if its collector returned Ok;
\* a collector that has failed takes no further step; and the step in which a
\* collector fails records nothing and leaves the other collectors as they were.
C4_FailureShortCircuitsOneProvider ==
    [][/\ \A c \in CollectorSet : samples'[c] # <<>> => IsOk(result'[c])
       /\ \A c \in CollectorSet : IsErr(result[c]) => CollectorUnchanged(c)
       /\ \A c \in CollectorSet :
            (~IsErr(result[c]) /\ IsErr(result'[c])) =>
               /\ pc'[c] = "done"
               /\ samples'[c] = <<>>
               /\ \A d \in CollectorSet \ {c} : CollectorUnchanged(d)]_vars

\* Claude failed at its last step, on an unparsable body, and recorded nothing;
\* OpenRouter has recorded its samples and GitHub Copilot is still in flight.
C4_Witness ==
    /\ IsErr(result["claude"])
    /\ Display(result["claude"])[1] = "Failed to parse usage response: "
    /\ samples["claude"] = <<>>
    /\ IsOk(result["openrouter"])
    /\ Len(samples["openrouter"]) = 3
    /\ pc["github_copilot"] = "send"

-----------------------------------------------------------------------------
(* C5 *)

\* The metrics run_github_copilot records: chat and premium_interactions.
CopilotMetricNames == {"chat", "premium_interactions"}

\* C5: for every metric a collector has recorded there is one utilization
\* sample labelled metric_name = the metric's name, and a reset-countdown sample
\* with that same label exactly if the metric's time to reset is present, for
\* Claude and for GitHub Copilot alike.
C5_EveryMetricHasLabelledSamples ==
    /\ IsOk(result["claude"]) => ClaudeSamplesComplete
    /\ IsOk(result["github_copilot"]) =>
         \A n \in CopilotMetricNames :
            /\ Cardinality(SamplesWith("github_copilot",
                                       "github_copilot.usage.utilization",
                                       MetricNameTag(n))) = 1
            /\ Cardinality(SamplesWith("github_copilot",
                                       "github_copilot.usage.seconds_to_reset",
                                       MetricNameTag(n)))
                 = IF IsSome(Unwrap(seconds_to_reset)) THEN 1 ELSE 0

-----------------------------------------------------------------------------
(* C10 *)

\* The utilization the provider reported for the bucket of metric k.
Reported(k) ==
    Unwrap(Unwrap(Unwrap(usage_response)[Unwrap(usage_metrics)[k].name]).utilization)

\* The value of the utilization sample recorded for metric k.
UtilizationSample(k) ==
    LET at == SamplesWith("claude", "claude.usage.utilization",
                          MetricNameTag(Unwrap(usage_metrics)[k].name))
    IN  samples["claude"][CHOOSE i \in at : TRUE].value

\* C10 as stated: the Metric already carries reported/100 and the sample
\* recorded for it has the Metric's value.
C10_MetricCarriesFraction ==
    IsOk(result["claude"]) =>
      \A k \in 1..Len(Unwrap(usage_metrics)) :
         /\ Unwrap(usage_metrics)[k].utilization = FDiv(Reported(k), Hundred)
         /\ UtilizationSample(k) = Unwrap(usage_metrics)[k].utilization

\* C10, amended: the Metric carries the utilization as reported, unscaled; the
\* utilization sample recorded for it is that value over 100, which lies in
\* [0, 1] whenever the reported value lies in [0, 100].
C10_SampleIsMetricOverHundred ==
    IsOk(result["claude"]) =>
      \A k \in 1..Len(Unwrap(usage_metrics)) :
         LET u == Unwrap(usage_metrics)[k].utilization
             v == UtilizationSample(k)
         IN  /\ u = Reported(k)
             /\ Num(v) * 100 * Den(u) = Num(u) * Den(v)
             /\ (FLe(Zero, Reported(k)) /\ FLe(Reported(k), Hundred))
                  => (FLe(Zero, v) /\ FLe(v, One))

\* Claude reported 75 for five_hour: the Metric carries 75, the sample 3/4.
C10_Witness ==
    /\ IsOk(result["claude"])
    /\ \E k \in 1..Len(Unwrap(usage_metrics)) :
          /\ Unwrap(usage_metrics)[k].name = "five_hour"
          /\ Reported(k) = F64(75, 1)
          /\ Unwrap(usage_metrics)[k].utilization = F64(75, 1)
          /\ UtilizationSample(k) = F64(3, 4)

-----------------------------------------------------------------------------
(* The normalizer and the reset arithmetic on enumerated inputs *)

\* The tail of run_claude applied to the response in usage_response, read at
\* the instant in claude_now.
NormalizeCall ==
    /\ pc["claude"] = "text"
    /\ IsSome(usage_response)
    /\ usage_metrics = None
    /\ LET f == ClaudeAfterParse(Unwrap(usage_response), Unwrap(claude_now))
       IN  /\ Return("claude", f.result)
           /\ usage_metrics' = f.usage_metrics
           /\ samples' = [samples EXCEPT !["claude"] = @ \o f.samples]
    /\ UNCHANGED <<env, mainVars, runVars, body_read, usage_response, claude_now,
                   openrouterVars, copilotVars>>

\* The tail of run_github_copilot applied to the response in quotas, read at
\* the instant in copilot_now.
CopilotResetCall ==
    /\ pc["github_copilot"] = "json"
    /\ IsSome(quotas)
    /\ seconds_to_reset = None
    /\ LET f == CopilotAfterParse(Unwrap(quotas), Unwrap(copilot_now))
       IN  /\ Return("github_copilot", f.result)
           /\ seconds_to_reset' = f.seconds_to_reset
           /\ samples' = [samples EXCEPT !["github_copilot"] = @ \o f.samples]
    /\ UNCHANGED <<env, mainVars, runVars, body_read, claudeVars, openrouterVars, quotas,
                   copilot_now>>

\* The tail of run_openrouter applied to the response in or_response.
OpenRouterCall ==
    /\ pc["openrouter"] = "json"
    /\ IsSome(or_response)
    /\ or_metrics = None
    /\ LET f == OpenRouterAfterParse(Unwrap(or_response))
       IN  /\ Return("openrouter", f.result)
           /\ or_metrics' = f.or_metrics
           /\ samples' = [samples EXCEPT !["openrouter"] = @ \o f.samples]
    /\ UNCHANGED <<env, mainVars, runVars, body_read, claudeVars, or_response,
                   copilotVars>>

\* run() is joining; Claude and GitHub Copilot are at their last await.
AtLastAwait ==
    /\ env = [COOKIEJAR_URL |-> Some(UriText),
              CLAUDE_ORGANIZATION_ID |-> Some(<<"text", 2>>),
              OPENROUTER_API_KEY |-> Some(<<"text", 3>>)]
    /\ main_pc = "run"
    /\ main_result = Pending
    /\ shutdowns = <<>>
    /\ body_read = [c \in CollectorSet |-> None]
    /\ run_pc = "join"
    /\ run_result = Pending
    /\ pc = [c \in CollectorSet |->
               CASE c = "claude" -> "text"
                 [] c = "openrouter" -> "start"
                 [] c = "github_copilot" -> "json"]
    /\ result = [c \in CollectorSet |-> Pending]
    /\ samples = [c \in CollectorSet |-> <<>>]
    /\ usage_metrics = None
    /\ or_response = None
    /\ or_metrics = None
    /\ seconds_to_reset = None

\* How a bucket of the response is present: 1 absent, 2 present with no
\* utilization, 3 present with a utilization.
Presences == 1..3

\* What reset string a bucket carries: 0 none, 1 a text that is no timestamp,
\* 2 a timestamp.  Patterns 0..2 give every bucket the same kind, patterns 3..5
\* rotate the three kinds over the buckets.
ResetPatterns == 0..5

ResetKind(pattern, k) == IF pattern < 3 THEN pattern ELSE (k + pattern) % 3

ResetOfKind(kind) ==
    CASE kind = 0 -> None
      [] kind = 1 -> Some(<<"text", 7>>)
      [] kind = 2 -> Some(Rfc3339At(Noon, 0))

IndexOf(name) == CHOOSE k \in 1..Len(FieldNames) : FieldNames[k] = name

\* Bucket k carries the utilization k/10 when it carries one.
BucketOf(presence, kind, name) ==
    CASE presence = 1 -> None
      [] presence = 2 -> Some(UsageInfo(None, ResetOfKind(kind)))
      [] presence = 3 -> Some(UsageInfo(Some(F64(IndexOf(name), 10)), ResetOfKind(kind)))

InitNorm ==
    /\ AtLastAwait
    /\ \E presence \in [FieldSet -> Presences], pattern \in ResetPatterns :
          usage_response =
              Some([n \in FieldSet |->
                      BucketOf(presence[n], ResetKind(pattern, IndexOf(n)), n)])
    /\ claude_now = Some(Today * MsPerDay)
    /\ quotas = None
    /\ copilot_now = None

SpecNorm == InitNorm /\ [][NormalizeCall]_vars

\* Half seconds a reset timestamp lies before or after the clock.
MaxHalfSecs == 5

\* Days a reset date lies after today.
MaxDaysAhead == 2

\* The UTC offset of a zone one hour east.
EastOffset == 3600 * MsPerSec

\* Reset strings: timestamps around the clock in two time zones, a date, a text.
ResetStrings(now) ==
    {Rfc3339At(now + h * (MsPerSec \div 2), off) :
        h \in (-MaxHalfSecs)..MaxHalfSecs, off \in {0, EastOffset}}
    \cup {<<"date", Today>>} \cup {<<"text", 7>>}

\* Reset dates: days around today, a timestamp, a text.
ResetDates ==
    {<<"date", d>> : d \in 0..(Today + MaxDaysAhead)}
    \cup {Rfc3339At(Noon, 0)} \cup {<<"text", 8>>}

InitReset ==
    /\ AtLastAwait
    /\ \E now \in Nows :
          /\ claude_now = Some(now)
          /\ copilot_now = Some(now)
          /\ \E r \in {None} \cup {Some(x) : x \in ResetStrings(now)} :
                usage_response =
                    Some([n \in FieldSet |->
                            IF n = "five_hour" THEN Some(UsageInfo(Some(F64(50, 1)), r))
                            ELSE None])
    /\ \E d \in ResetDates :
          quotas = Some([chat_percentage |-> F64(50, 1),
                         premium_interactions_percentage |-> F64(50, 1),
                         reset_date |-> d])

NextReset == NormalizeCall \/ CopilotResetCall

SpecReset == InitReset /\ [][NextReset]_vars

-----------------------------------------------------------------------------
(* Reading the normalizer's input and output *)

Normalized == IsSome(usage_metrics)

Bucket(name) == Unwrap(usage_response)[name]

HasUtilization(name) ==
    IsSome(Bucket(name)) /\ IsSome(Unwrap(Bucket(name)).utilization)

BucketUtilization(name) == Unwrap(Unwrap(Bucket(name)).utilization)

BucketReset(name) == Unwrap(Bucket(name)).resets_at

\* The reset string of the bucket is a well-formed timestamp.
IsTimestamp(reset) == IsSome(reset) /\ Unwrap(reset)[1] = "rfc3339"

\* Positions in usage_metrics of the Metrics named `name`.
MetricsNamed(name) ==
    {k \in 1..Len(Unwrap(usage_metrics)) : Unwrap(usage_metrics)[k].name = name}

-----------------------------------------------------------------------------
(* C6 *)

\* s is zero when the reset instant lies before now, and otherwise the whole
\* seconds of reset - now.
WholeSecondsUntil(s, reset, now) ==
    /\ s >= 0
    /\ reset < now => s = 0
    /\ reset >= now => (s * MsPerSec <= reset - now /\ reset - now < (s + 1) * MsPerSec)

\* C6: a time to reset, when present, is >= 0: zero for a reset instant before
\* now, else the whole seconds of reset - now; for the Claude normalizer (an
\* RFC 3339 timestamp, in any time zone) and for GitHub Copilot (a date, taken
\* at midnight UTC).
C6_TimeToResetClamped ==
    /\ Normalized =>
         \A k \in 1..Len(Unwrap(usage_metrics)) :
            LET m == Unwrap(usage_metrics)[k]
                r == BucketReset(m.name)
            IN  /\ IsSome(m.seconds_to_reset) <=> IsTimestamp(r)
                /\ IsTimestamp(r) =>
                     WholeSecondsUntil(Unwrap(m.seconds_to_reset),
                                       Unwrap(r)[2] - Unwrap(r)[3],
                                       Unwrap(claude_now))
    /\ IsSome(seconds_to_reset) =>
         LET d == Unwrap(quotas).reset_date
             s == Unwrap(seconds_to_reset)
         IN  /\ IsSome(s) <=> d[1] = "date"
             /\ d[1] = "date" =>
                  WholeSecondsUntil(Unwrap(s), d[2] * 86400 * MsPerSec,
                                    Unwrap(copilot_now))

\* Both computed zero: Claude for a timestamp 2.5 s in the past given in a zone
\* one hour east, GitHub Copilot for yesterday's date.
C6_Witness ==
    /\ Normalized
    /\ Len(Unwrap(usage_metrics)) = 1
    /\ BucketReset("five_hour")
         = Some(Rfc3339At(Unwrap(claude_now) - 5 * (MsPerSec \div 2), EastOffset))
    /\ Unwrap(usage_metrics)[1].seconds_to_reset = Some(0)
    /\ IsSome(seconds_to_reset)
    /\ Unwrap(quotas).reset_date = <<"date", Today - 1>>
    /\ Unwrap(seconds_to_reset) = Some(0)

-----------------------------------------------------------------------------
(* C7 *)

\* C7: normalization returns and the collector returns Ok; every bucket with a
\* utilization has its Metric, with the bucket's name and utilization, whatever
\* its own and the other buckets' reset strings are; the Metric's time to reset
\* is absent when the reset string is absent or no timestamp, and present
\* otherwise; and its utilization sample is recorded.
C7_UnparsableResetKeepsMetric ==
    Normalized =>
      /\ IsOk(result["claude"])
      /\ \A n \in FieldSet :
           HasUtilization(n) =>
             \E k \in MetricsNamed(n) :
                LET m == Unwrap(usage_metrics)[k]
                IN  /\ m.utilization = BucketUtilization(n)
                    /\ ~IsTimestamp(BucketReset(n)) => m.seconds_to_reset = None
                    /\ IsTimestamp(BucketReset(n)) => IsSome(m.seconds_to_reset)
                    /\ SamplesWith("claude", "claude.usage.utilization",
                                   MetricNameTag(n)) # {}

\* Three buckets with a utilization: one with no reset string, one with a text,
\* one with a timestamp; all three Metrics are there.
C7_Witness ==
    /\ Normalized
    /\ HasUtilization("five_hour") /\ BucketReset("five_hour") = None
    /\ HasUtilization("seven_day") /\ BucketReset("seven_day") = Some(<<"text", 7>>)
    /\ HasUtilization("seven_day_oauth_apps")
    /\ IsTimestamp(BucketReset("seven_day_oauth_apps"))
    /\ Len(Unwrap(usage_metrics)) = 3
    /\ Unwrap(usage_metrics)[1].seconds_to_reset = None
    /\ Unwrap(usage_metrics)[2].seconds_to_reset = None
    /\ IsSome(Unwrap(usage_metrics)[3].seconds_to_reset)

-----------------------------------------------------------------------------
(* C8 *)

\* C8: a bucket has exactly one Metric if its sub-object and its utilization are
\* present and none otherwise, whatever the other buckets are; in particular a
\* response with no sub-object yields the empty sequence.
C8_MetricIffUtilizationPresent ==
    Normalized =>
      /\ \A n \in FieldSet :
           Cardinality(MetricsNamed(n)) = IF HasUtilization(n) THEN 1 ELSE 0
      /\ \A k \in 1..Len(Unwrap(usage_metrics)) :
           Unwrap(usage_metrics)[k].name \in FieldSet
      /\ (\A n \in FieldSet : ~IsSome(Bucket(n))) => Unwrap(usage_metrics) = <<>>

\* five_hour has a utilization, extra_usage is present without one, seven_day
\* is absent: the only Metric is five_hour's.
C8_Witness ==
    /\ Normalized
    /\ HasUtilization("five_hour")
    /\ IsSome(Bucket("extra_usage")) /\ ~HasUtilization("extra_usage")
    /\ ~IsSome(Bucket("seven_day"))
    /\ Len(Unwrap(usage_metrics)) = 1
    /\ Unwrap(usage_metrics)[1].name = "five_hour"

-----------------------------------------------------------------------------
(* C9 *)

\* C9: the Metrics appear in declaration order, each name at most once, each
\* with its own bucket's utilization.
C9_DeclarationOrder ==
    Normalized =>
      LET ms == Unwrap(usage_metrics)
      IN  /\ \A j, k \in 1..Len(ms) :
                j < k => IndexOf(ms[j].name) < IndexOf(ms[k].name)
          /\ \A k \in 1..Len(ms) :
                /\ ms[k].name \in FieldSet
                /\ HasUtilization(ms[k].name)
                /\ ms[k].utilization = BucketUtilization(ms[k].name)

\* five_hour, seven_day, seven_day_opus and extra_usage only: four Metrics in
\* that order with utilizations 0.1, 0.2, 0.4, 0.8.
C9_Witness ==
    /\ Normalized
    /\ {n \in FieldSet : HasUtilization(n)}
         = {"five_hour", "seven_day", "seven_day_opus", "extra_usage"}
    /\ [k \in 1..4 |-> Unwrap(usage_metrics)[k].name]
         = <<"five_hour", "seven_day", "seven_day_opus", "extra_usage">>
    /\ [k \in 1..4 |-> Unwrap(usage_metrics)[k].utilization]
         = <<F64(1, 10), F64(2, 10), F64(4, 10), F64(8, 10)>>

-----------------------------------------------------------------------------
(* C11 *)

Tokens(msg) == {msg[i] : i \in 1..Len(msg)}

\* Collector c received a response body and then failed: the body did not
\* decode into the provider's response type.
ParseFailed(c) == IsSome(body_read[c]) /\ IsErr(result[c])

\* The entry of provider c in the aggregate message, after its label.
EntryText(c) ==
    LET i == CHOOSE i \in LabelPositions(c) : TRUE
    IN  SubSeq(AggregateMessage, i + 1, i + EntryLen(c) - 1)

ParseContexts ==
    {"Failed to parse usage response: ",
     "Failed to parse OpenRouter credits response",
     "Failed to parse GitHub Copilot quota response"}

\* C11: for each of the three providers, the error of a collector whose
\* response body did not decode names the parse step and carries the raw body
\* it received, and once run() has returned, that provider's entry in the
\* aggregate message contains the raw body.
C11_ParseFailureCarriesRawBody ==
    \A c \in CollectorSet :
       ParseFailed(c) =>
         /\ Display(result[c])[1] \in ParseContexts
         /\ Unwrap(body_read[c]) \in Tokens(Display(result[c]))
         /\ Returned => Unwrap(body_read[c]) \in Tokens(EntryText(c))

-----------------------------------------------------------------------------
(* C12 *)

\* Credit amounts are the half units from -MaxHalfCredits to MaxHalfCredits.
MaxHalfCredits == 5

CreditAmounts == {F64(k, 2) : k \in (0 - MaxHalfCredits)..MaxHalfCredits}

\* run() is joining and OpenRouter has answered with a well-formed document.
InitCredits ==
    /\ env = [COOKIEJAR_URL |-> Some(UriText),
              CLAUDE_ORGANIZATION_ID |-> Some(<<"text", 2>>),
              OPENROUTER_API_KEY |-> Some(<<"text", 3>>)]
    /\ main_pc = "run"
    /\ main_result = Pending
    /\ shutdowns = <<>>
    /\ body_read = [c \in CollectorSet |-> None]
    /\ run_pc = "join"
    /\ run_result = Pending
    /\ pc = [c \in CollectorSet |-> IF c = "openrouter" THEN "json" ELSE "start"]
    /\ result = [c \in CollectorSet |-> Pending]
    /\ samples = [c \in CollectorSet |-> <<>>]
    /\ usage_response = None
    /\ claude_now = None
    /\ usage_metrics = None
    /\ \E credits \in CreditAmounts, usage \in CreditAmounts :
          or_response = Some([total_credits |-> credits, total_usage |-> usage])
    /\ or_metrics = None
    /\ quotas = None
    /\ copilot_now = None
    /\ seconds_to_reset = None

SpecCredits == InitCredits /\ [][OpenRouterCall]_vars

\* The values recorded on gauge g by the OpenRouter collector, in order.
CreditSamples(g) ==
    SelectSeq(samples["openrouter"], LAMBDA x : x.gauge = g)

\* x = c - u, stated on numerators and denominators.
IsDifference(x, c, u) ==
    Num(x) * Den(c) * Den(u) = Den(x) * (Num(c) * Den(u) - Num(u) * Den(c))

\* C12: once the credit-balance normalizer has run on (total_credits,
\* total_usage), its result has exactly the three values total_credits and
\* total_usage unchanged and remaining = total_credits - total_usage, whatever
\* the sign of the difference, with no reset time, and the collector has
\* recorded exactly these three values, one on each of its three gauges.
C12_CreditsPassThrough ==
    IsSome(or_metrics) =>
      LET d == Unwrap(or_response)
          m == Unwrap(or_metrics)
      IN  /\ DOMAIN m = {"total_credits", "total_usage", "remaining"}
          /\ m.total_credits = d.total_credits
          /\ m.total_usage = d.total_usage
          /\ IsDifference(m.remaining, d.total_credits, d.total_usage)
          /\ Len(samples["openrouter"]) = 3
          /\ CreditSamples("openrouter.credits.total")
                = <<Sample("openrouter.credits.total", d.total_credits, <<>>)>>
          /\ CreditSamples("openrouter.credits.usage")
                = <<Sample("openrouter.credits.usage", d.total_usage, <<>>)>>
          /\ Len(CreditSamples("openrouter.credits.remaining")) = 1
          /\ IsDifference(CreditSamples("openrouter.credits.remaining")[1].value,
                          d.total_credits, d.total_usage)
          /\ CreditSamples("openrouter.credits.remaining")[1].tags = <<>>

\* Usage exceeds credits and the recorded balance is negative.
C12_Witness ==
    /\ IsOk(result["openrouter"])
    /\ IsSome(or_metrics)
    /\ ~FLe(Unwrap(or_response).total_usage, Unwrap(or_response).total_credits)
    /\ Num(CreditSamples("openrouter.credits.remaining")[1].value) < 0

-----------------------------------------------------------------------------
(* C13 *)

\* C13: every outbound call is bounded by a timeout, so once run() is joining
\* its collectors, every collector eventually completes and run() eventually
\* returns, whatever the remote peers do.
C13_RunEventuallyReturns ==
    (run_pc = "join") ~> (Returned /\ \A c \in CollectorSet : pc[c] = "done")

-----------------------------------------------------------------------------
(* C14 *)

\* The shutdown of the given provider has been called.
Attempted(provider) ==
    \E i \in 1..Len(shutdowns) : shutdowns[i][1] = provider

\* init_telemetry returned Ok: main is past phase 1 and did not leave from it.
TelemetryInitialised ==
    /\ main_pc # "init"
    /\ ~(main_pc = "exited" /\ run_pc = "start")

\* main is about to call, or has called, meter_provider.shutdown().
MeterShutdownBegun == main_pc = "shutdown_meter" \/ Attempted("meter_provider")

\* C14: once telemetry is initialised, main exits only after it has attempted
\* the shutdown of the tracer provider and of the meter provider, whatever
\* run() returned and whatever the tracer shutdown returned; a shutdown is
\* attempted only when run() has returned with every collector completed; and
\* from the moment the meter shutdown begins no gauge sample is recorded.
C14_ShutdownOnEveryPathAfterRun ==
    [][/\ (main_pc' = "exited" /\ TelemetryInitialised')
            => (Attempted("tracer_provider")' /\ Attempted("meter_provider")')
       /\ (shutdowns' # shutdowns)
            => (Returned /\ \A c \in CollectorSet : pc[c] = "done")
       /\ MeterShutdownBegun => (samples' = samples)]_vars

\* main has exited after run() failed and the tracer shutdown failed; the meter
\* shutdown was attempted all the same, after OpenRouter had recorded.
C14_Witness ==
    /\ main_pc = "exited"
    /\ IsErr(run_result)
    /\ main_result = run_result
    /\ shutdowns = <<<<"tracer_provider", "err">>, <<"meter_provider", "ok">>>>
    /\ samples["openrouter"] # <<>>
=============================================================================
